---- MODULE Spec2Model ----
(***************************************************************************)
(* Model of src/main.js (minesweeper).  The JavaScript `state` object is  *)
(* the variable state, the DOM the handlers read and write (the restart   *)
(* button's class, every field button's disabled attribute and class      *)
(* list) is the variable view, and the browser's set of live interval     *)
(* timers is the variable intervals.  Every event handler is one atomic   *)
(* action (the page is single-threaded).  Display text (innerText,         *)
(* data-value) is a function of the modelled state and is left out.       *)
(***************************************************************************)
EXTENDS Integers, Sequences, FiniteSets

VARIABLES state, view, intervals, last, probe, call

vars == <<state, view, intervals, last, probe, call>>

(* Bounds of the model: the boards explored are at most MaxWidth wide and  *)
(* MaxHeight high, of at most MaxCells cells, with at most MaxMines mines; *)
(* SpecWide explores boards of up to MaxWideCells cells, with at most      *)
(* MaxWideMines mines.                                                     *)
MaxWidth == 3
MaxHeight == 3
MaxCells == 6
MaxMines == 3
MaxWideCells == 9
MaxWideMines == 2

(* fields[y][x] = -1 marks a mine. *)
Mine == -1

(* The value of timerStart / timerInterval before the timer is started. *)
Undefined == 0

Range(s) == {s[k] : k \in DOMAIN s}

Max(a, b) == IF a >= b THEN a ELSE b

Min(a, b) == IF a <= b THEN a ELSE b

(* fields.length and fields[0].length *)
Height(fields) == Cardinality(DOMAIN fields)

Width(fields) == Cardinality(DOMAIN fields[0])

(* The button's data-x / data-y, as createFieldButtons sets them for      *)
(* grid.children[index], index = y * width + x.                            *)
getButtonPosition(fields, index) ==
    [x |-> index % Width(fields), y |-> index \div Width(fields)]

ButtonIndices(fields) == 0 .. (Height(fields) * Width(fields) - 1)

ValueAt(fields, index) ==
    LET pos == getButtonPosition(fields, index)
    IN  fields[pos.y][pos.x]

(***************************************************************************)
(* Board generation.                                                       *)
(***************************************************************************)
(* Variant: the neighbours are incremented without the test for a mine. *)
updateMineNeighboursAll(fields, mineX, mineY) ==
    [y \in DOMAIN fields |->
        [x \in DOMAIN fields[y] |->
            IF /\ Max(0, mineY - 1) <= y /\ y <= Min(Height(fields) - 1, mineY + 1)
               /\ Max(0, mineX - 1) <= x /\ x <= Min(Width(fields) - 1, mineX + 1)
            THEN fields[y][x] + 1
            ELSE fields[y][x]]]

(* Variant: the test skips the placed mine itself, not every mine. *)
updateMineNeighboursButSelf(fields, mineX, mineY) ==
    [y \in DOMAIN fields |->
        [x \in DOMAIN fields[y] |->
            IF /\ Max(0, mineY - 1) <= y /\ y <= Min(Height(fields) - 1, mineY + 1)
               /\ Max(0, mineX - 1) <= x /\ x <= Min(Width(fields) - 1, mineX + 1)
               /\ ~(x = mineX /\ y = mineY)
            THEN fields[y][x] + 1
            ELSE fields[y][x]]]

updateMineNeighbours(fields, mineX, mineY) ==
    LET height == Height(fields)
        width  == Width(fields)
        startX == Max(0, mineX - 1)
        startY == Max(0, mineY - 1)
        endX   == Min(width - 1, mineX + 1)
        endY   == Min(height - 1, mineY + 1)
    IN  [y \in DOMAIN fields |->
            [x \in DOMAIN fields[y] |->
                IF /\ startY <= y /\ y <= endY
                   /\ startX <= x /\ x <= endX
                   /\ fields[y][x] # Mine
                THEN fields[y][x] + 1
                ELSE fields[y][x]]]

(* The body of the for-of loop of insertMines, for one index. *)
PlaceMine(fields, index) ==
    LET width == Width(fields)
        y == index \div width
        x == index % width
    IN  updateMineNeighbours([fields EXCEPT ![y][x] = Mine], x, y)

(* The for-of loop over the Set `indices`, in its insertion order. *)
RECURSIVE PlaceMines(_, _)
PlaceMines(fields, indices) ==
    IF indices = <<>> THEN fields
    ELSE PlaceMines(PlaceMine(fields, Head(indices)), Tail(indices))

(* What the while loop of insertMines can leave in `indices`: minesCount  *)
(* distinct indices below size, in the order Math.random drew them.       *)
RECURSIVE Draws(_, _)
Draws(size, minesCount) ==
    IF minesCount = 0 THEN {<<>>}
    ELSE UNION {{Append(s, i) : i \in (0 .. (size - 1)) \ Range(s)} :
                    s \in Draws(size, minesCount - 1)}

insertMines(st, minesCount, indices) ==
    [st EXCEPT !.fields = PlaceMines(st.fields, indices),
               !.fieldsLeft = st.fieldsLeft - minesCount]

initGameState(width, height, minesCount, indices) ==
    insertMines(
        [minesCount    |-> minesCount,
         minesLeft     |-> minesCount,
         isGameOver    |-> FALSE,
         fieldsLeft    |-> width * height,
         fields        |-> [y \in 0 .. (height - 1) |-> [x \in 0 .. (width - 1) |-> 0]],
         timerStart    |-> Undefined,
         timerInterval |-> Undefined],
        minesCount, indices)

(* Valid configurations, width, height > 0 and                            *)
(* 0 <= minesCount <= width*height, within the given bounds.               *)
Boards(cells, mines) ==
    {c \in [width : 1 .. MaxWidth, height : 1 .. MaxHeight, minesCount : 0 .. mines] :
        /\ c.width * c.height <= cells
        /\ c.minesCount <= c.width * c.height}

Configs == Boards(MaxCells, MaxMines)

WideConfigs == Boards(MaxWideCells, MaxWideMines)

(* Every state initGameState can return, by configuration. *)
StatesOf ==
    {[config |-> c,
      states |-> {initGameState(c.width, c.height, c.minesCount, ind) :
                    ind \in Draws(c.width * c.height, c.minesCount)}] :
        c \in Configs \cup WideConfigs}

NewStates == UNION {t.states : t \in {u \in StatesOf : u.config \in Configs}}

WideStates == UNION {t.states : t \in {u \in StatesOf : u.config \in WideConfigs}}

(***************************************************************************)
(* The view.                                                               *)
(***************************************************************************)
(* createFieldButtons followed by initView: the restart button without a  *)
(* class, every field button enabled and without a class.                  *)
initView(v, st) ==
    [restart |-> "",
     buttons |-> [i \in ButtonIndices(st.fields) |->
                     [disabled |-> FALSE, classList |-> {}]]]

(***************************************************************************)
(* Reveal.                                                                 *)
(***************************************************************************)
(* What the handlers read and write: the state object, the view and the   *)
(* browser's live intervals.                                               *)
Pack(st, v, live) == [state |-> st, view |-> v, intervals |-> live]

(* clearInterval(handle): cancels that interval if it is live. *)
clearInterval(g, handle) == [g EXCEPT !.intervals = @ \ {handle}]

(* revealField's return value. *)
revealFieldRet(g, index) == ~g.view.buttons[index].disabled

(* Variant: revealField without its test of button.disabled. *)
revealFieldAgain(g, index) ==
    [g EXCEPT !.view.buttons[index].disabled = TRUE,
              !.view.buttons[index].classList = @ \ {"flagged"},
              !.state.fieldsLeft =
                    IF ValueAt(g.state.fields, index) = Mine THEN @ ELSE @ - 1]

(* Variant: fieldsLeft is counted down before the test of button.disabled. *)
revealFieldCounting(g, index) ==
    LET g1 == [g EXCEPT !.state.fieldsLeft =
                    IF ValueAt(g.state.fields, index) = Mine THEN @ ELSE @ - 1]
    IN  IF g.view.buttons[index].disabled THEN g1
        ELSE [g1 EXCEPT !.view.buttons[index].disabled = TRUE,
                        !.view.buttons[index].classList = @ \ {"flagged"}]

revealField(g, index) ==
    IF g.view.buttons[index].disabled THEN g
    ELSE [g EXCEPT !.view.buttons[index].disabled = TRUE,
                   !.view.buttons[index].classList = @ \ {"flagged"},
                   !.state.fieldsLeft =
                        IF ValueAt(g.state.fields, index) = Mine THEN @ ELSE @ - 1]

(* The for-of loop of gameOver over grid.children, from button k on. *)
RECURSIVE RevealMinesFrom(_, _)
RevealMinesFrom(g, k) ==
    IF k \notin ButtonIndices(g.state.fields) THEN g
    ELSE RevealMinesFrom(
            IF ValueAt(g.state.fields, k) = Mine THEN revealField(g, k) ELSE g,
            k + 1)

(* Variant: gameOver without its clearInterval. *)
gameOverTicking(g) ==
    RevealMinesFrom([g EXCEPT !.state.isGameOver = TRUE], 0)

gameOver(g) ==
    RevealMinesFrom(
        [clearInterval(g, g.state.timerInterval) EXCEPT !.state.isGameOver = TRUE], 0)

(***************************************************************************)
(* revealEmptyArea.  The recursion of visit is unfolded over the sequence  *)
(* of its pending calls: a = [g, visited, calls, processed], calls holding *)
(* the arguments <<i, j>> of the calls still to run, the next one first,   *)
(* and processed the indices of the buttons revealField was called on, in  *)
(* the order of the calls.                                                 *)
(* visit(a, i, j) is the body of one call, which puts its own four calls   *)
(* in front of the pending ones, in the order the code makes them.         *)
(***************************************************************************)
(* Variant: visit also calls itself on the four diagonal neighbours. *)
visitEightWays(a, i, j) ==
    LET height == Height(a.g.state.fields)
        width  == Width(a.g.state.fields)
        index  == j * width + i
    IN  IF i < 0 \/ i >= width \/ j < 0 \/ j >= height THEN a
        ELSE IF index \in a.visited THEN a
        ELSE LET a1 == [a EXCEPT !.g = revealField(a.g, index),
                                 !.visited = @ \cup {index},
                                 !.processed = Append(@, index)]
             IN  IF a.g.state.fields[j][i] # 0 THEN a1
                 ELSE [a1 EXCEPT !.calls =
                        <<<<i - 1, j>>, <<i + 1, j>>, <<i, j - 1>>, <<i, j + 1>>,
                          <<i - 1, j - 1>>, <<i + 1, j - 1>>,
                          <<i - 1, j + 1>>, <<i + 1, j + 1>>>> \o @]

(* Variant: visit returns at a button that carries the flagged class. *)
visitSkippingFlagged(a, i, j) ==
    LET height == Height(a.g.state.fields)
        width  == Width(a.g.state.fields)
        index  == j * width + i
    IN  IF i < 0 \/ i >= width \/ j < 0 \/ j >= height THEN a
        ELSE IF index \in a.visited THEN a
        ELSE IF "flagged" \in a.g.view.buttons[index].classList
        THEN [a EXCEPT !.visited = @ \cup {index}]
        ELSE LET a1 == [a EXCEPT !.g = revealField(a.g, index),
                                 !.visited = @ \cup {index},
                                 !.processed = Append(@, index)]
             IN  IF a.g.state.fields[j][i] # 0 THEN a1
                 ELSE [a1 EXCEPT !.calls =
                        <<<<i - 1, j>>, <<i + 1, j>>, <<i, j - 1>>, <<i, j + 1>>>> \o @]

(* Variant: only the Empty(0) cells are put in visited. *)
visitMarkingZeros(a, i, j) ==
    LET height == Height(a.g.state.fields)
        width  == Width(a.g.state.fields)
        index  == j * width + i
    IN  IF i < 0 \/ i >= width \/ j < 0 \/ j >= height THEN a
        ELSE IF index \in a.visited THEN a
        ELSE LET a1 == [a EXCEPT !.g = revealField(a.g, index),
                                 !.processed = Append(@, index)]
             IN  IF a.g.state.fields[j][i] # 0 THEN a1
                 ELSE [a1 EXCEPT !.visited = @ \cup {index},
                                 !.calls =
                        <<<<i - 1, j>>, <<i + 1, j>>, <<i, j - 1>>, <<i, j + 1>>>> \o @]

visit(a, i, j) ==
    LET height == Height(a.g.state.fields)
        width  == Width(a.g.state.fields)
        index  == j * width + i
    IN  IF i < 0 \/ i >= width \/ j < 0 \/ j >= height THEN a
        ELSE IF index \in a.visited THEN a
        ELSE LET a1 == [a EXCEPT !.g = revealField(a.g, index),
                                 !.visited = @ \cup {index},
                                 !.processed = Append(@, index)]
             IN  IF a.g.state.fields[j][i] # 0 THEN a1
                 ELSE [a1 EXCEPT !.calls =
                        <<<<i - 1, j>>, <<i + 1, j>>, <<i, j - 1>>, <<i, j + 1>>>> \o @]

(* Runs the pending calls until none is left. *)
RECURSIVE RunCalls(_)
RunCalls(a) ==
    IF a.calls = <<>> THEN a
    ELSE RunCalls(visit([a EXCEPT !.calls = Tail(@)], Head(a.calls)[1], Head(a.calls)[2]))

revealEmptyArea(g, x, y) ==
    RunCalls([g |-> g, visited |-> {}, calls |-> <<<<x, y>>>>, processed |-> <<>>]).g

(* The final fieldsLeft test of handleFieldReveal. *)
(* Variant: the final test is passed with one field still left. *)
CheckWonEarly(g) ==
    IF g.state.fieldsLeft <= 1
    THEN gameOver([g EXCEPT !.view.restart = "won"])
    ELSE g

CheckWon(g) ==
    IF g.state.fieldsLeft = 0
    THEN gameOver([g EXCEPT !.view.restart = "won"])
    ELSE g

(* The switch of handleFieldReveal. *)
(* Variant: the case 0 of the switch reveals the one field only. *)
RevealSwitchSingle(g, index) ==
    LET pos == getButtonPosition(g.state.fields, index)
        v   == g.state.fields[pos.y][pos.x]
    IN  IF v = Mine
        THEN IF revealFieldRet(g, index)
             THEN gameOver([revealField(g, index) EXCEPT
                                !.view.buttons[index].classList = @ \cup {"exploded"},
                                !.view.restart = "lost"])
             ELSE g
        ELSE revealField(g, index)

RevealSwitch(g, index) ==
    LET pos == getButtonPosition(g.state.fields, index)
        v   == g.state.fields[pos.y][pos.x]
    IN  IF v = Mine
        THEN IF revealFieldRet(g, index)
             THEN gameOver([revealField(g, index) EXCEPT
                                !.view.buttons[index].classList = @ \cup {"exploded"},
                                !.view.restart = "lost"])
             ELSE g
        ELSE IF v = 0 THEN revealEmptyArea(g, pos.x, pos.y)
        ELSE revealField(g, index)

(* Variant: handleFieldReveal without its test for the flagged class. *)
handleFieldRevealAnyway(g, index) == CheckWon(RevealSwitch(g, index))

handleFieldReveal(g, index) ==
    IF "flagged" \in g.view.buttons[index].classList THEN g
    ELSE CheckWon(RevealSwitch(g, index))

(***************************************************************************)
(* Flag.                                                                   *)
(***************************************************************************)
(* Variant: minesLeft is decremented whichever way the class toggles. *)
handleFieldFlagOneWay(g, index) ==
    IF g.view.buttons[index].disabled THEN g
    ELSE LET isFlagged == "flagged" \notin g.view.buttons[index].classList
         IN  [g EXCEPT !.view.buttons[index].classList =
                            IF isFlagged THEN @ \cup {"flagged"} ELSE @ \ {"flagged"},
                       !.state.minesLeft = @ - 1]

(* Variant: minesLeft is clamped at 0. *)
handleFieldFlagClamped(g, index) ==
    IF g.view.buttons[index].disabled THEN g
    ELSE LET isFlagged == "flagged" \notin g.view.buttons[index].classList
         IN  [g EXCEPT !.view.buttons[index].classList =
                            IF isFlagged THEN @ \cup {"flagged"} ELSE @ \ {"flagged"},
                       !.state.minesLeft = Max(0, @ + (IF isFlagged THEN -1 ELSE 1))]

handleFieldFlag(g, index) ==
    IF g.view.buttons[index].disabled THEN g
    ELSE LET isFlagged == "flagged" \notin g.view.buttons[index].classList
         IN  [g EXCEPT !.view.buttons[index].classList =
                            IF isFlagged THEN @ \cup {"flagged"} ELSE @ \ {"flagged"},
                       !.state.minesLeft = @ + (IF isFlagged THEN -1 ELSE 1)]

(***************************************************************************)
(* Timer.                                                                  *)
(***************************************************************************)
(* The handle setInterval returns: one that names no live interval. *)
NewHandle(live) == CHOOSE n \in 1 .. (Cardinality(live) + 1) : n \notin live

(* new Date(): the model keeps only that timerStart is set. *)
Started == 1

ensureTimerStarted(g) ==
    IF g.state.timerInterval # Undefined THEN g
    ELSE LET handle == NewHandle(g.intervals)
         IN  [g EXCEPT !.state.timerStart = Started,
                       !.state.timerInterval = handle,
                       !.intervals = @ \cup {handle}]

(***************************************************************************)
(* Cell states of the specification, read off the buttons.                 *)
(***************************************************************************)
IsRevealed(v, i) == v.buttons[i].disabled

IsFlagged(v, i) == ~v.buttons[i].disabled /\ "flagged" \in v.buttons[i].classList

IsHidden(v, i) == ~v.buttons[i].disabled /\ "flagged" \notin v.buttons[i].classList

(***************************************************************************)
(* The handlers.                                                           *)
(***************************************************************************)
(* event.button: 2 is the right button, anything else reveals. *)
LeftButton == 0

RightButton == 2

(* Variant: the listener without its test of state.isGameOver. *)
mousedownAlways(g, index, evButton) ==
    IF evButton = RightButton
    THEN handleFieldFlag(ensureTimerStarted(g), index)
    ELSE handleFieldReveal(ensureTimerStarted(g), index)

(* The mousedown listener of handleGameEvents on a field button. *)
mousedown(g, index, evButton) ==
    IF g.state.isGameOver THEN g
    ELSE IF evButton = RightButton
         THEN handleFieldFlag(ensureTimerStarted(g), index)
         ELSE handleFieldReveal(ensureTimerStarted(g), index)

(* Variant: restartGame without its clearInterval. *)
restartGameLeaking(g, newState) ==
    [g EXCEPT !.state = newState, !.view = initView(g.view, newState)]

restartGame(g, newState) ==
    LET g1 == clearInterval(g, g.state.timerInterval)
    IN  [g1 EXCEPT !.state = newState, !.view = initView(g1.view, newState)]

(* What initGameState can return as restartGame calls it: with the width, *)
(* height and minesCount of the state it replaces.                         *)
RestartStates(st) ==
    LET c == [width |-> Width(st.fields), height |-> Height(st.fields),
              minesCount |-> st.minesCount]
    IN  (CHOOSE t \in StatesOf : t.config = c).states

Cur == Pack(state, view, intervals)

Set(g) ==
    /\ state' = g.state
    /\ view' = g.view
    /\ intervals' = g.intervals

(***************************************************************************)
(* History.  last, recorded by SpecHistory, is the event that led to the   *)
(* current state: which handler ran, the cell state of its button (Hidden  *)
(* for a restart) and isGameOver when it ran.  probe, recorded by SpecProbe, follows one cell *)
(* through the sequence flag, reveal, unflag, reveal, and keeps the        *)
(* session as it was before the flag (pre) and right after it (mid).       *)
(***************************************************************************)
CellState(v, i) ==
    IF IsRevealed(v, i) THEN "Revealed"
    ELSE IF IsFlagged(v, i) THEN "Flagged" ELSE "Hidden"

NoEvent(op) == [op |-> op, cell |-> "Hidden", over |-> FALSE]

Event(op, index) ==
    [op |-> op, cell |-> CellState(view, index), over |-> state.isGameOver]

NoProbe == [phase |-> "none", index |-> 0, pre |-> <<>>, mid |-> <<>>]

(* call, used by SpecCreate and SpecCascade, is the function call those    *)
(* specifications run statement by statement; elsewhere no call is         *)
(* followed.                                                               *)
NoCall == [pc |-> "none"]

Track(index, evButton) ==
    IF /\ probe.phase \in {"flagged", "revealFlagged"}
       /\ probe.index = index
    THEN [probe EXCEPT !.phase = IF evButton = RightButton
                                 THEN "unflagged" ELSE "revealFlagged"]
    ELSE IF /\ probe.phase = "unflagged"
            /\ probe.index = index
            /\ evButton = LeftButton
    THEN [probe EXCEPT !.phase = "revealed"]
    ELSE IF /\ evButton = RightButton
            /\ ~state.isGameOver
            /\ IsHidden(view, index)
    THEN [phase |-> "flagged", index |-> index, pre |-> Cur,
          mid |-> mousedown(Cur, index, RightButton)]
    ELSE NoProbe

(***************************************************************************)
(* The specification: main() builds a session, then the listeners run.    *)
(* The mousedown target is always a field button (a mousedown elsewhere in *)
(* the grid returns at once).                                              *)
(***************************************************************************)
InitSession ==
    /\ state \in NewStates
    /\ view = initView(<<>>, state)
    /\ intervals = {}
    /\ last = NoEvent("init")

Init == InitSession /\ probe = NoProbe /\ call = NoCall

FlagEvent ==
    \E index \in ButtonIndices(state.fields) :
        /\ Set(mousedown(Cur, index, RightButton))
        /\ UNCHANGED <<last, probe, call>>

RevealEvent ==
    \E index \in ButtonIndices(state.fields) :
        /\ Set(mousedown(Cur, index, LeftButton))
        /\ UNCHANGED <<last, probe, call>>

Restart ==
    \E newState \in RestartStates(state) :
        /\ Set(restartGame(Cur, newState))
        /\ UNCHANGED <<last, probe, call>>

Next == FlagEvent \/ RevealEvent \/ Restart

Spec == Init /\ [][Next]_vars

(* The same session on the larger boards. *)
InitWide ==
    /\ state \in WideStates
    /\ view = initView(<<>>, state)
    /\ intervals = {}
    /\ last = NoEvent("init")
    /\ probe = NoProbe
    /\ call = NoCall

SpecWide == InitWide /\ [][Next]_vars

(* The same session, with the last event recorded. *)
FlagEventLogged ==
    \E index \in ButtonIndices(state.fields) :
        /\ Set(mousedown(Cur, index, RightButton))
        /\ last' = Event("flag", index)
        /\ UNCHANGED <<probe, call>>

RevealEventLogged ==
    \E index \in ButtonIndices(state.fields) :
        /\ Set(mousedown(Cur, index, LeftButton))
        /\ last' = Event("reveal", index)
        /\ UNCHANGED <<probe, call>>

RestartLogged ==
    \E newState \in RestartStates(state) :
        /\ Set(restartGame(Cur, newState))
        /\ last' = [NoEvent("restart") EXCEPT !.over = state.isGameOver]
        /\ UNCHANGED <<probe, call>>

NextHistory == FlagEventLogged \/ RevealEventLogged \/ RestartLogged

SpecHistory == Init /\ [][NextHistory]_vars

(* The same session, with the probe recorded. *)
FlagEventProbed ==
    \E index \in ButtonIndices(state.fields) :
        /\ Set(mousedown(Cur, index, RightButton))
        /\ probe' = Track(index, RightButton)
        /\ UNCHANGED <<last, call>>

RevealEventProbed ==
    \E index \in ButtonIndices(state.fields) :
        /\ Set(mousedown(Cur, index, LeftButton))
        /\ probe' = Track(index, LeftButton)
        /\ UNCHANGED <<last, call>>

RestartProbed ==
    \E newState \in RestartStates(state) :
        /\ Set(restartGame(Cur, newState))
        /\ probe' = NoProbe
        /\ UNCHANGED <<last, call>>

NextProbe == FlagEventProbed \/ RevealEventProbed \/ RestartProbed

SpecProbe == Init /\ [][NextProbe]_vars

(***************************************************************************)
(* initGameState, statement by statement (SpecCreate), on any width,       *)
(* height in -1 .. MaxCreateSide and minesCount in 0 .. MaxCreateMines.    *)
(* state is the object under construction; call holds the arguments, the   *)
(* position in the code (pc), the Set indices in its insertion order and   *)
(* the number of its members the for-of loop has gone through (placed).    *)
(* A call ends with pc = "returned" or, on a TypeError or RangeError, with *)
(* pc = "threw".                                                           *)
(***************************************************************************)
MaxCreateSide == 3
MaxCreateMines == 3

InitCreate ==
    /\ call \in {[pc |-> "construct", width |-> w, height |-> h, minesCount |-> n,
                  indices |-> <<>>, placed |-> 0] :
                    w \in -1 .. MaxCreateSide, h \in -1 .. MaxCreateSide,
                    n \in 0 .. MaxCreateMines}
    /\ state = <<>>
    /\ view = <<>>
    /\ intervals = {}
    /\ last = NoEvent("init")
    /\ probe = NoProbe

(* The object literal: Array.from makes no row for a length <= 0, and      *)
(* Array(width) throws a RangeError for width < 0 when a row is made.      *)
Construct ==
    /\ call.pc = "construct"
    /\ IF call.height >= 1 /\ call.width < 0
       THEN /\ call' = [call EXCEPT !.pc = "threw"]
            /\ UNCHANGED state
       ELSE /\ state' = [minesCount    |-> call.minesCount,
                         minesLeft     |-> call.minesCount,
                         isGameOver    |-> FALSE,
                         fieldsLeft    |-> call.width * call.height,
                         fields        |-> [y \in 0 .. (call.height - 1) |->
                                                [x \in 0 .. (call.width - 1) |-> 0]],
                         timerStart    |-> Undefined,
                         timerInterval |-> Undefined]
            /\ call' = [call EXCEPT !.pc = "while"]
    /\ UNCHANGED <<view, intervals, last, probe>>

(* Math.floor(Math.random() * size), Math.random() being in [0, 1). *)
RandomIndices(size) == IF size > 0 THEN 0 .. (size - 1) ELSE size .. 0

(* One round of the while loop: indices.add(index) adds nothing when the   *)
(* Set holds index already.                                                *)
DrawIndex ==
    /\ call.pc = "while"
    /\ Len(call.indices) < call.minesCount
    /\ \E index \in RandomIndices(state.fieldsLeft) :
            call' = [call EXCEPT !.indices =
                        IF index \in Range(@) THEN @ ELSE Append(@, index)]
    /\ UNCHANGED <<state, view, intervals, last, probe>>

(* The loop is left; state.fields[0].length throws a TypeError when fields *)
(* has no row.                                                             *)
ReadWidth ==
    /\ call.pc = "while"
    /\ Len(call.indices) >= call.minesCount
    /\ call' = [call EXCEPT !.pc = IF DOMAIN state.fields = {} THEN "threw" ELSE "for"]
    /\ UNCHANGED <<state, view, intervals, last, probe>>

(* One round of the for-of loop.  With width = 0, y and x are NaN,         *)
(* state.fields[y] is undefined and the assignment throws a TypeError.     *)
PlaceNext ==
    /\ call.pc = "for"
    /\ call.placed < Len(call.indices)
    /\ IF Width(state.fields) = 0
       THEN /\ call' = [call EXCEPT !.pc = "threw"]
            /\ UNCHANGED state
       ELSE /\ state' = [state EXCEPT
                            !.fields = PlaceMine(@, call.indices[call.placed + 1])]
            /\ call' = [call EXCEPT !.placed = @ + 1]
    /\ UNCHANGED <<view, intervals, last, probe>>

(* state.fieldsLeft -= minesCount, and initGameState returns state. *)
Finish ==
    /\ call.pc = "for"
    /\ call.placed = Len(call.indices)
    /\ state' = [state EXCEPT !.fieldsLeft = @ - call.minesCount]
    /\ call' = [call EXCEPT !.pc = "returned"]
    /\ UNCHANGED <<view, intervals, last, probe>>

NextCreate == Construct \/ DrawIndex \/ ReadWidth \/ PlaceNext \/ Finish

(* Math.random does not repeat the members of indices for ever when there  *)
(* is another index to draw.                                               *)
SpecCreate == InitCreate /\ [][NextCreate]_vars /\ WF_vars(NextCreate)

(***************************************************************************)
(* revealEmptyArea, one call of visit at a time (SpecCascade), on a new    *)
(* session, from any cell of the board.  call holds visited, the pending   *)
(* calls and processed as RunCalls does, and the number of calls of visit  *)
(* that have run (steps).                                                  *)
(***************************************************************************)
InitCascade ==
    /\ state \in WideStates
    /\ view = initView(<<>>, state)
    /\ intervals = {}
    /\ last = NoEvent("init")
    /\ probe = NoProbe
    /\ call \in {[pc |-> "cascade", visited |-> {}, calls |-> <<<<x, y>>>>,
                  processed |-> <<>>, steps |-> 0] :
                    x \in 0 .. (Width(state.fields) - 1),
                    y \in 0 .. (Height(state.fields) - 1)}

VisitStep ==
    /\ call.pc = "cascade"
    /\ call.calls # <<>>
    /\ LET a == visit([g |-> Cur, visited |-> call.visited,
                       calls |-> Tail(call.calls), processed |-> call.processed],
                      Head(call.calls)[1], Head(call.calls)[2])
       IN  /\ Set(a.g)
           /\ call' = [call EXCEPT !.visited = a.visited,
                                   !.calls = a.calls,
                                   !.processed = a.processed,
                                   !.steps = @ + 1]
    /\ UNCHANGED <<last, probe>>

NextCascade == VisitStep

SpecCascade == InitCascade /\ [][NextCascade]_vars /\ WF_vars(NextCascade)

(***************************************************************************)
(* Vocabulary of the properties.                                           *)
(***************************************************************************)

Cells == ButtonIndices(state.fields)

MineCells == {i \in Cells : ValueAt(state.fields, i) = Mine}

FlaggedCells == {i \in Cells : IsFlagged(view, i)}

ExplodedCells == {i \in Cells : "exploded" \in view.buttons[i].classList}

(* The step is the mousedown listener run with the left (right) button on *)
(* field button i.  A mousedown step ends with the timer started, where a  *)
(* restart ends with timerInterval undefined: tested first, that tells the *)
(* two apart without running the listener.                                 *)
RevealOf(i) ==
    /\ state'.timerInterval # Undefined
    /\ Set(mousedown(Cur, i, LeftButton))

FlagOf(i) ==
    /\ state'.timerInterval # Undefined
    /\ Set(mousedown(Cur, i, RightButton))

Session == <<state, view, intervals>>

(***************************************************************************)
(* C1: revealing a Hidden Mine cell while the game is Pending leaves the  *)
(* outcome Lost (not Won), the game over and every Mine cell Revealed, on  *)
(* every valid board, 0 <= minesCount <= width*height included.            *)
(***************************************************************************)
C1_RevealMineLoses ==
    [][\A i \in Cells :
          (/\ ~state.isGameOver
           /\ IsHidden(view, i)
           /\ ValueAt(state.fields, i) = Mine
           /\ RevealOf(i))
          => /\ view'.restart = "lost"
             /\ state'.isGameOver
             /\ \A m \in MineCells : IsRevealed(view', m)]_vars

(***************************************************************************)
(* C2: the game is Won iff fieldsLeft reached 0 while the game was not    *)
(* over: a Won session has fieldsLeft = 0 and no mine revealed by a direct *)
(* reveal (no exploded cell), and a session whose fieldsLeft is 0 after a  *)
(* non-losing reveal is Won and over.                                      *)
(***************************************************************************)
C2_WonIffNoFieldsLeft ==
    /\ view.restart = "won" => (state.fieldsLeft = 0 /\ ExplodedCells = {})
    /\ (/\ state.fieldsLeft = 0
        /\ ExplodedCells = {}
        /\ \E i \in Cells : IsRevealed(view, i))
       => (view.restart = "won" /\ state.isGameOver)

C4_MinesLeftCountsFlags ==
    state.minesLeft = state.minesCount - Cardinality(FlaggedCells)

(***************************************************************************)
(* C5: revealing a Hidden Empty(0) cell changes to Revealed exactly the   *)
(* maximal 4-connected region of Empty(0) cells reachable from it plus the *)
(* cells 4-adjacent to that region, and changes no cell outside that set.  *)
(***************************************************************************)
Neighbours4(fields, i) ==
    LET p == getButtonPosition(fields, i)
    IN  {k \in ButtonIndices(fields) :
            LET q == getButtonPosition(fields, k)
            IN  \/ (q.x = p.x /\ (q.y = p.y + 1 \/ q.y = p.y - 1))
                \/ (q.y = p.y /\ (q.x = p.x + 1 \/ q.x = p.x - 1))}

(* The cells around cell i, diagonals included, clipped at the edges. *)
Neighbours8(fields, i) ==
    LET p == getButtonPosition(fields, i)
    IN  {k \in ButtonIndices(fields) \ {i} :
            LET q == getButtonPosition(fields, k)
            IN  /\ q.x - p.x \in {-1, 0, 1}
                /\ q.y - p.y \in {-1, 0, 1}}

(* The least set of Empty(0) cells that holds S and every Empty(0) cell   *)
(* 4-adjacent to one of its members.                                       *)
RECURSIVE ZeroRegion(_, _)
ZeroRegion(fields, S) ==
    LET more == {k \in UNION {Neighbours4(fields, c) : c \in S} :
                    ValueAt(fields, k) = 0}
    IN  IF more \subseteq S THEN S ELSE ZeroRegion(fields, S \cup more)

CascadeArea(fields, i) ==
    LET region == ZeroRegion(fields, {i})
    IN  region \cup UNION {Neighbours4(fields, c) : c \in region}

HiddenZeroCells ==
    {i \in Cells : IsHidden(view, i) /\ ValueAt(state.fields, i) = 0}

C5_CascadeExactlyArea ==
    [][(~state.isGameOver /\ state'.timerInterval # Undefined)
          => \A i \in HiddenZeroCells :
                RevealOf(i)
                => LET area == CascadeArea(state.fields, i)
                   IN  \A c \in Cells :
                          IF c \in area
                          THEN IsRevealed(view', c)
                          ELSE view'.buttons[c] = view.buttons[c]]_vars

(***************************************************************************)
(* C5, as the code has it: the cells of that set are Revealed afterwards;  *)
(* a cell outside it is unchanged, unless the cascade revealed the last    *)
(* non-mine cell (fieldsLeft = 0, the game is Won and over): then the      *)
(* Mine cells outside it are Revealed too, and nothing else changes.       *)
(***************************************************************************)
C5_CascadeAreaAndWin ==
    [][(~state.isGameOver /\ state'.timerInterval # Undefined)
          => \A i \in HiddenZeroCells :
                RevealOf(i)
                => LET area == CascadeArea(state.fields, i)
                   IN  \A c \in Cells :
                          IF c \in area
                          THEN IsRevealed(view', c)
                          ELSE IF state'.fieldsLeft = 0 /\ ValueAt(state.fields, c) = Mine
                          THEN /\ IsRevealed(view', c)
                               /\ state'.isGameOver
                               /\ view'.restart = "won"
                          ELSE view'.buttons[c] = view.buttons[c]]_vars

(* A cascade has run and left Hidden a non-mine cell that touches one of   *)
(* its Empty(0) cells only diagonally: the game goes on.                   *)
C5_Witness ==
    /\ ~state.isGameOver
    /\ \E z \in Cells :
        /\ IsRevealed(view, z)
        /\ ValueAt(state.fields, z) = 0
        /\ \E c \in (Neighbours8(state.fields, z) \ CascadeArea(state.fields, z))
                        \ MineCells :
                IsHidden(view, c)

(***************************************************************************)
(* C6: in every generated grid exactly minesCount cells are Mine, every    *)
(* other cell's value is the number of Mine cells among its (edge-clipped) *)
(* 8 neighbours, and a new session's fieldsLeft is width*height minus      *)
(* minesCount.                                                             *)
(***************************************************************************)
(* No mousedown has run since the session was created. *)
Untouched == state.timerInterval = Undefined

C6_GeneratedGrid ==
    /\ Cardinality(MineCells) = state.minesCount
    /\ \A i \in Cells \ MineCells :
            ValueAt(state.fields, i) =
                Cardinality(Neighbours8(state.fields, i) \cap MineCells)
    /\ Untouched =>
            state.fieldsLeft = Width(state.fields) * Height(state.fields) - state.minesCount

(* A grid with a cell between two mines, one of them next to the other. *)
C6_Witness ==
    /\ Untouched
    /\ \E i \in Cells : ValueAt(state.fields, i) = 2
    /\ \E m \in MineCells : Neighbours8(state.fields, m) \cap MineCells # {}

(***************************************************************************)
(* C7: once isGameOver is true, a reveal or flag event at any cell leaves  *)
(* the whole session unchanged: cells, minesLeft, fieldsLeft, outcome and  *)
(* timer; only restart changes it.                                         *)
(***************************************************************************)
C7_NoEffectOnceOver ==
    [][(state.isGameOver /\ last'.op \in {"flag", "reveal"})
          => UNCHANGED Session]_vars

C7_Witness ==
    /\ state.isGameOver
    /\ last.over
    /\ last.op \in {"flag", "reveal"}
    /\ last.cell = "Hidden"

(***************************************************************************)
(* C8: in every reachable state fieldsLeft is the number of non-mine cells *)
(* that are not Revealed.                                                  *)
(***************************************************************************)
C8_FieldsLeftCountsUnrevealed ==
    state.fieldsLeft =
        Cardinality({i \in Cells \ MineCells : ~IsRevealed(view, i)})

(* Some cells are revealed, a mine is flagged, the game goes on. *)
C8_Witness ==
    /\ ~state.isGameOver
    /\ Cardinality({i \in Cells : IsRevealed(view, i)}) >= 2
    /\ FlaggedCells \cap MineCells # {}

(***************************************************************************)
(* C9: after a Hidden cell is toggled to Flagged, a reveal request on it   *)
(* changes nothing; after it is toggled back to Hidden, a reveal request   *)
(* on it leaves the session exactly as a reveal of the cell would have     *)
(* left the session that was never flagged.                                *)
(***************************************************************************)
C9_FlagRevealInteraction ==
    /\ probe.phase = "revealFlagged"
        => (IsFlagged(view, probe.index) /\ Cur = probe.mid)
    /\ probe.phase = "revealed"
        => Cur = mousedown(probe.pre, probe.index, LeftButton)

(* The cell was flagged, unflagged and then revealed, and the reveal       *)
(* cascaded.                                                               *)
C9_Witness ==
    /\ probe.phase = "revealed"
    /\ IsRevealed(view, probe.index)
    /\ ValueAt(state.fields, probe.index) = 0
    /\ ~state.isGameOver

(***************************************************************************)
(* C10: a flag event while the game is Pending toggles a non-Revealed cell *)
(* between Hidden and Flagged and changes minesLeft by exactly -1 when     *)
(* flagging and +1 when unflagging, without clamping; on a Revealed cell   *)
(* it changes nothing; it never changes isGameOver, fieldsLeft or another  *)
(* cell.                                                                   *)
(***************************************************************************)
C10_ToggleFlag ==
    [][\A i \in Cells :
          (~state.isGameOver /\ FlagOf(i))
          => /\ IsHidden(view, i)
                => (IsFlagged(view', i) /\ state'.minesLeft = state.minesLeft - 1)
             /\ IsFlagged(view, i)
                => (IsHidden(view', i) /\ state'.minesLeft = state.minesLeft + 1)
             /\ IsRevealed(view, i) => UNCHANGED Session
             /\ state'.isGameOver = state.isGameOver
             /\ state'.fieldsLeft = state.fieldsLeft
             /\ state'.fields = state.fields
             /\ view'.restart = view.restart
             /\ \A c \in Cells \ {i} : view'.buttons[c] = view.buttons[c]]_vars

(* More cells are flagged than there are mines: minesLeft is negative. *)
C10_Witness ==
    /\ ~state.isGameOver
    /\ state.minesLeft < 0
    /\ Cardinality(FlaggedCells) > state.minesCount

(***************************************************************************)
(* C11: a reveal request on a cell that is already Revealed, whatever its  *)
(* value, changes nothing: fieldsLeft is not counted down again, no other  *)
(* cell becomes Revealed, the outcome stays.                               *)
(***************************************************************************)
C11_RevealOfRevealedIsNoOp ==
    [][\A i \in Cells :
          (IsRevealed(view, i) /\ RevealOf(i)) => UNCHANGED Session]_vars

(* The last event was a reveal on a Revealed cell of a game going on, and  *)
(* both an Empty(0) and a numbered cell are Revealed.                      *)
C11_Witness ==
    /\ last.op = "reveal"
    /\ last.cell = "Revealed"
    /\ ~last.over
    /\ \E i \in Cells : IsRevealed(view, i) /\ ValueAt(state.fields, i) = 0
    /\ \E i \in Cells : IsRevealed(view, i) /\ ValueAt(state.fields, i) > 0

(***************************************************************************)
(* C12: on a board without mines, whatever its width and height and        *)
(* whichever cells were flagged or unflagged before, the first reveal of a *)
(* Hidden cell ends the game as Won with fieldsLeft = 0.                   *)
(***************************************************************************)
C12_NoMinesFirstRevealWins ==
    [][(state.minesCount = 0 /\ ~state.isGameOver)
          => \A i \in Cells :
                (IsHidden(view, i) /\ RevealOf(i))
                => /\ view'.restart = "won"
                   /\ state'.fieldsLeft = 0
                   /\ state'.isGameOver
                   /\ \A c \in Cells : IsRevealed(view', c)]_vars

(* A board of at least four cells without mines was won after two of its   *)
(* cells had been flagged (minesLeft still counts them).                   *)
C12_Witness ==
    /\ state.minesCount = 0
    /\ Cardinality(Cells) >= 4
    /\ view.restart = "won"
    /\ state.minesLeft = -2

(***************************************************************************)
(* C13: revealing a Hidden cell with a value n > 0 while the game is       *)
(* Pending changes only that cell, to Revealed, and counts fieldsLeft down *)
(* by exactly 1; no other cell's state changes.                            *)
(***************************************************************************)
HiddenNumberedCells ==
    {i \in Cells : IsHidden(view, i) /\ ValueAt(state.fields, i) > 0}

C13_RevealNumberedOnly ==
    [][(~state.isGameOver /\ state'.timerInterval # Undefined)
          => \A i \in HiddenNumberedCells :
                RevealOf(i)
                => /\ IsRevealed(view', i)
                   /\ state'.fieldsLeft = state.fieldsLeft - 1
                   /\ \A c \in Cells \ {i} : view'.buttons[c] = view.buttons[c]]_vars

(***************************************************************************)
(* C13, as the code has it: the cell becomes Revealed and fieldsLeft goes  *)
(* down by exactly 1; no other cell changes and the game goes on, unless   *)
(* that was the last non-mine cell (fieldsLeft = 0): then the game is Won  *)
(* and over, every Mine cell is Revealed too, and no other cell changes.   *)
(***************************************************************************)
C13_RevealNumberedAndWin ==
    [][(~state.isGameOver /\ state'.timerInterval # Undefined)
          => \A i \in HiddenNumberedCells :
                RevealOf(i)
                => /\ IsRevealed(view', i)
                   /\ state'.fieldsLeft = state.fieldsLeft - 1
                   /\ state'.minesLeft = state.minesLeft
                   /\ IF state'.fieldsLeft = 0
                      THEN /\ state'.isGameOver
                           /\ view'.restart = "won"
                           /\ \A c \in Cells \ {i} :
                                IF ValueAt(state.fields, c) = Mine
                                THEN IsRevealed(view', c)
                                ELSE view'.buttons[c] = view.buttons[c]
                      ELSE /\ ~state'.isGameOver
                           /\ view'.restart = view.restart
                           /\ \A c \in Cells \ {i} :
                                view'.buttons[c] = view.buttons[c]]_vars

(* The 3x3 board with its one mine in the middle, after the reveal of the  *)
(* corner (0,0): that cell alone is Revealed and fieldsLeft is 7.          *)
C13_Witness ==
    /\ Cardinality(Cells) = 9
    /\ Width(state.fields) = 3
    /\ MineCells = {4}
    /\ ~state.isGameOver
    /\ {c \in Cells : IsRevealed(view, c)} = {0}
    /\ \A c \in Cells \ {0} : IsHidden(view, c)
    /\ state.fieldsLeft = 7

(***************************************************************************)
(* C14: a restart, from any reachable state, leaves a session that a fresh *)
(* creation with the same width, height and minesCount could have          *)
(* produced: every cell Hidden and without a class, minesLeft =            *)
(* minesCount, fieldsLeft = width*height - minesCount, the game not over,  *)
(* no outcome shown, the timer stopped and not started.                    *)
(***************************************************************************)
C14_RestartIsFresh ==
    [][last'.op = "restart"
          => /\ state' \in RestartStates(state)
             /\ view' = initView(<<>>, state')
             /\ intervals' = {}
             /\ Width(state'.fields) = Width(state.fields)
             /\ Height(state'.fields) = Height(state.fields)
             /\ state'.minesCount = state.minesCount
             /\ state'.minesLeft = state.minesCount
             /\ state'.fieldsLeft =
                    Width(state.fields) * Height(state.fields) - state.minesCount
             /\ ~state'.isGameOver
             /\ state'.timerInterval = Undefined
             /\ state'.timerStart = Undefined
             /\ view'.restart = ""
             /\ \A c \in ButtonIndices(state'.fields) :
                    view'.buttons[c] = [disabled |-> FALSE, classList |-> {}]]_vars

(* A finished game was restarted. *)
C14_Witness ==
    /\ last.op = "restart"
    /\ last.over
    /\ Untouched
    /\ intervals = {}

(***************************************************************************)
(* C15: a creation with an invalid configuration (minesCount >             *)
(* width*height, or width or height not positive) is rejected: the call    *)
(* ends in an error, it neither hangs nor returns a session.  (A call     *)
(* that stays in the while loop for ever, drawing members of indices       *)
(* again and again, is a behaviour whose steps leave every variable        *)
(* unchanged from some point on, with pc = "while".)                       *)
(***************************************************************************)
ValidConfig(c) ==
    /\ c.width > 0
    /\ c.height > 0
    /\ c.minesCount >= 0
    /\ c.minesCount <= c.width * c.height

C15_InvalidConfigRejected ==
    ~ValidConfig(call) => <>(call.pc = "threw")

(***************************************************************************)
(* C16: in every reachable state in which the game is Pending, no Mine     *)
(* cell is Revealed and fieldsLeft > 0.                                    *)
(***************************************************************************)
C16_PendingNoMineRevealed ==
    ~state.isGameOver
        => /\ \A m \in MineCells : ~IsRevealed(view, m)
           /\ state.fieldsLeft > 0

(***************************************************************************)
(* C17: revealEmptyArea terminates on every grid from every cell of the    *)
(* board, calls revealField on each cell at most once, however many paths  *)
(* reach the cell, and makes at most 4 * width * height + 1 calls of       *)
(* visit.                                                                  *)
(***************************************************************************)
C17_CascadeTerminates ==
    /\ [](/\ \A m, n \in DOMAIN call.processed :
                m # n => call.processed[m] # call.processed[n]
          /\ call.steps <= 4 * Cardinality(Cells) + 1)
    /\ <>(call.calls = <<>>)

(* A cascade over the whole 3x3 board has ended: each of the 9 cells was   *)
(* processed, and visit was called again on cells reached by another path. *)
C17_Witness ==
    /\ call.calls = <<>>
    /\ Cardinality(Cells) = 9
    /\ Len(call.processed) = 9
    /\ call.steps = 4 * 9 + 1
    /\ \A c \in Cells : IsRevealed(view, c)

(***************************************************************************)
(* C18: for every set of distinct mine indices, every order in which the   *)
(* for-of loop can go through it (mark the cell as Mine, then increment    *)
(* its non-mine neighbours) gives the same grid.                           *)
(***************************************************************************)
(* The sequences that hold each member of S once. *)
Orders(S) ==
    {p \in [1 .. Cardinality(S) -> S] :
        \A m, n \in 1 .. Cardinality(S) : m # n => p[m] # p[n]}

C18_PlacementOrderIndependent ==
    call.pc = "returned"
        => \A p \in Orders(Range(call.indices)) :
                initGameState(call.width, call.height, call.minesCount, p).fields
                    = state.fields

(* Three mines were placed, not in the order of their indices, two of them *)
(* next to each other and a cell counts two of them.                       *)
C18_Witness ==
    /\ call.pc = "returned"
    /\ Len(call.indices) = 3
    /\ call.indices[1] > call.indices[2]
    /\ \E m \in MineCells : Neighbours8(state.fields, m) \cap MineCells # {}
    /\ \E i \in Cells : ValueAt(state.fields, i) = 2

(***************************************************************************)
(* C19: the timer is started by the first reveal or flag event of a        *)
(* session and stopped when the game ends and by restart: at most one      *)
(* interval is live in any state, none when the game is over or when no    *)
(* event has come since the session was created or restarted, and the one  *)
(* of state.timerInterval while a game goes on after an event.             *)
(***************************************************************************)
C19_TimerLifecycle ==
    /\ Cardinality(intervals) <= 1
    /\ state.isGameOver => intervals = {}
    /\ last.op \in {"init", "restart"}
        => (intervals = {} /\ state.timerInterval = Undefined
                           /\ state.timerStart = Undefined)
    /\ (last.op \in {"flag", "reveal"} /\ ~state.isGameOver)
        => (state.timerInterval # Undefined /\ state.timerStart # Undefined
                /\ intervals = {state.timerInterval})

(* The timer runs although no cell was ever revealed: the events so far   *)
(* were flags and a reveal on a Flagged cell, which changed no cell.       *)
C19_Witness ==
    /\ last.op = "reveal"
    /\ last.cell = "Flagged"
    /\ ~state.isGameOver
    /\ intervals = {state.timerInterval}
    /\ \A c \in Cells : ~IsRevealed(view, c)

(***************************************************************************)
(* C20: in every reachable state every 4-directional neighbour on the      *)
(* board of a Revealed Empty(0) cell is Revealed.                          *)
(***************************************************************************)
C20_ZeroNeighboursRevealed ==
    \A z \in Cells :
        (IsRevealed(view, z) /\ ValueAt(state.fields, z) = 0)
            => \A c \in Neighbours4(state.fields, z) : IsRevealed(view, c)

(* A cascade has revealed a cell that was Flagged (minesLeft still counts  *)
(* its flag) and the game goes on.                                         *)
C20_Witness ==
    /\ ~state.isGameOver
    /\ \E z \in Cells : IsRevealed(view, z) /\ ValueAt(state.fields, z) = 0
    /\ FlaggedCells = {}
    /\ state.minesLeft < state.minesCount

====
